---- MODULE Spec2Model ----
(***************************************************************************)
(* Model of the model-card pipeline of IMMM-SFA/modelcard:                 *)
(*   fetch_github -> fetch_documentation -> information_extraction ->      *)
(*   fetch_publications -> synthesize_and_validate -> decide_next_step ->  *)
(*   {END, error_handler -> END}                                           *)
(* Python values are records [k, s, l]: k is the kind, s the string (a     *)
(* sequence of atoms: whole words, "," and " "), l the list (a sequence of *)
(* strings).  A dict is a function whose DOMAIN is its key set.            *)
(***************************************************************************)
EXTENDS Integers, Sequences, FiniteSets, TLC

VARIABLES
    pc,                 \* node of the graph that runs next
    input_urls,         \* GraphState.input_urls
    github_docs,        \* GraphState.github_docs
    docs_docs,          \* GraphState.docs_docs
    extracted_info,     \* GraphState.extracted_info
    model_card,         \* GraphState.model_card
    error_messages,     \* GraphState.error_messages
    validation_issues,  \* GraphState.validation_issues
    loc,                \* information_extraction: its local extracted_info
    fi,                 \* information_extraction: index of the field the loop is at
    hist                \* history of the run (what was called, what was recorded)

vars == <<pc, input_urls, github_docs, docs_docs, extracted_info, model_card,
          error_messages, validation_issues, loc, fi, hist>>

----------------------------------------------------------------------------
(* Bounds                                                                  *)

\* longest string (in atoms) the validation inputs are drawn from
MaxStrLen == 3
\* longest list the validation inputs are drawn from
MaxListLen == 2
\* most chunks one document source yields
MaxDocs == 1

----------------------------------------------------------------------------
(* Python values                                                           *)

None == [k |-> "none", s |-> <<>>, l |-> <<>>]
Str(s) == [k |-> "str", s |-> s, l |-> <<>>]
List(l) == [k |-> "list", s |-> <<>>, l |-> l]
\* a scalar that is neither a string nor a list (a JSON number)
Num == [k |-> "int", s |-> <<>>, l |-> <<>>]

Word(w) == Str(<<w>>)

EmptyDict == [x \in {} |-> None]

\* d.get(key)
Get(d, key) == IF key \in DOMAIN d THEN d[key] ELSE None

\* d[key] = v
Put(d, key, v) == [x \in (DOMAIN d) \cup {key} |-> IF x = key THEN v ELSE d[x]]

\* if key not in d: d[key] = None
SetDefaultNone(d, key) == IF key \in DOMAIN d THEN d ELSE Put(d, key, None)

\* del d[key]
Del(d, key) == [x \in (DOMAIN d) \ {key} |-> d[x]]

\* Python truthiness of a value: None, "", [] are falsy
Truthy(v) ==
    \/ v.k = "int"
    \/ v.k = "str" /\ v.s # <<>>
    \/ v.k = "list" /\ v.l # <<>>

----------------------------------------------------------------------------
(* Schema: ModelCard.model_fields, in declaration order                    *)

ModelFields ==
    << "capability_name", "brief_description", "systems_covered", "contact_name",
       "contact_email", "key_contributors", "doi", "computational_requirements",
       "sponsoring_projects", "figure", "figure_caption", "spatial_resolution",
       "geographic_scope", "temporal_resolution", "temporal_range",
       "input_variables", "output_variables", "interdependencies",
       "key_publications", "category", "license", "current_version" >>

FieldNames == {ModelFields[i] : i \in 1..Len(ModelFields)}

\* fields annotated Union[List[str], str]; the others are annotated str
UnionFields ==
    { "key_contributors", "computational_requirements", "sponsoring_projects",
      "spatial_resolution", "geographic_scope", "temporal_resolution",
      "temporal_range", "input_variables", "output_variables",
      "interdependencies", "key_publications", "category" }

\* str(field_info.annotation), cut where the code looks: "List[" is one atom
AnnotationStr(f) ==
    IF f \in UnionFields
    THEN <<"typing.Union[typing.", "List[", "str], str]">>
    ELSE <<"<class 'str'>">>

\* getattr(field_info.annotation, "__origin__", None)
AnnotationOrigin(f) == IF f \in UnionFields THEN "typing.Union" ELSE "None"

\* field_info.is_required(): every field of ModelCard has default="N/A"
is_required(f) == FALSE

\* a check that takes a number for a string
FieldTypeOKLax(f, v) ==
    IF f \in UnionFields THEN v.k \in {"str", "list", "int"} ELSE v.k \in {"str", "int"}

\* pydantic's check of one field on ModelCard(**data)
FieldTypeOK(f, v) ==
    IF f \in UnionFields THEN v.k \in {"str", "list"} ELSE v.k = "str"

ALLOWED_COMPUTE_REQS == {<<"HPC">>, <<"Laptop">>, <<"None specified">>}

ALLOWED_CATEGORIES ==
    { <<"Atmosphere">>, <<"Physical Hydrology">>, <<"Water Management">>,
      <<"Wildfire">>, <<"Energy">>, <<"Multisectoral">>,
      <<"Land Use Land Cover">>, <<"Socioeconomics">> }

----------------------------------------------------------------------------
(* Error messages: the literal text of the f-string and the str(e) put in  *)
(* it ("" when the message embeds no exception)                            *)

\* str(e) of the exceptions the collaborators raise
ExcTexts == {"error"}

\* str(e) of a failed web search: the search backend words its own errors
SearchExcTexts == {"error", "fetch failed"}

Msg(text, e) == [text |-> text, exc |-> e]

\* the message texts whose lower-cased literal part contains "fetch failed"
FetchFailedTexts ==
    { "Git fetch failed: {e}. Check permissions/repo state.",
      "Docs URL fetch failed: {e}\nTraceback: {tb_str}" }

\* the message texts whose lower-cased literal part contains
\* "vector store initialization failed"
VectorStoreFailedTexts == {"Vector store initialization failed. RAG skipped."}

\* "fetch failed" in msg.lower()
HasFetchFailed(m) == m.text \in FetchFailedTexts \/ m.exc = "fetch failed"

\* "vector store initialization failed" in msg.lower()
HasVectorStoreFailed(m) == m.text \in VectorStoreFailedTexts

\* any("fetch failed" in msg.lower() for msg in errors)
AnyFetchFailed(errors) == \E i \in 1..Len(errors) : HasFetchFailed(errors[i])

\* any("vector store initialization failed" in msg.lower() for msg in errors)
AnyVectorStoreFailed(errors) == \E i \in 1..Len(errors) : HasVectorStoreFailed(errors[i])

----------------------------------------------------------------------------
(* Document sets: None, or a list of n chunks                              *)

DocsNone == [none |-> TRUE, n |-> 0]
Docs(n) == [none |-> FALSE, n |-> n]

\* state.get(key) or []  (the number of documents)
OrEmpty(d) == IF d.none THEN 0 ELSE d.n

GITHUB_URL == "https://github.com/IMMM-SFA/mosartwmpy"
DOCS_URL == "https://mosartwmpy.readthedocs.io/en/latest/"

\* detail: the run also notes what each model response was like, and in
\* last what the latest iteration of the field loop did
NoHist ==
    [ events |-> {}, failed |-> FALSE, prepop |-> EmptyDict, route |-> "", detail |-> FALSE,
      last |-> {} ]

Note(h, ev) == [h EXCEPT !.events = @ \cup ev]

----------------------------------------------------------------------------
(* fetch_github                                                            *)

\* the existing clone directory: git.Repo, fetch, GitLoader.load and the
\* three except clauses.  raw = -1 is raw_docs = None; esc: an exception left
\* the inner try; gone: the directory no longer exists
GithubExisting(errors, first, n1, n2, rm, e) ==
    CASE first = "loaded" ->
            [raw |-> n1, errs |-> errors, gone |-> FALSE, esc |-> FALSE, ev |-> {}]
      [] first = "invalid" ->
            [ raw |-> -1,
              errs |-> Append(errors, Msg("InvalidGitRepositoryError for existing dir: {e}", e)),
              gone |-> (rm = "ok"), esc |-> (rm = "raise"),
              ev |-> {"repo_open_failed"} \cup (IF rm = "raise" THEN {"remove_failed"} ELSE {}) ]
      [] first = "gitcmd" ->
            [ raw |-> n2,
              errs |-> IF n2 = -1
                       THEN Append(Append(errors,
                                Msg("Git fetch failed: {e}. Check permissions/repo state.", e)),
                                Msg("Failed to load docs after GitCommandError: {e}", e))
                       ELSE Append(errors,
                                Msg("Git fetch failed: {e}. Check permissions/repo state.", e)),
              gone |-> FALSE, esc |-> FALSE,
              ev |-> {"git_fetch_failed"} \cup (IF n2 = -1 THEN {"load_failed"} ELSE {}) ]
      [] OTHER ->
            [ raw |-> -1,
              errs |-> IF rm = "raise"
                       THEN Append(Append(errors,
                                Msg("Error accessing existing repo: {e}", e)),
                                Msg("Failed to remove problematic directory: {e}", e))
                       ELSE Append(errors, Msg("Error accessing existing repo: {e}", e)),
              gone |-> (rm = "ok"), esc |-> FALSE,
              ev |-> {"repo_open_failed"} \cup (IF rm = "raise" THEN {"remove_failed"} ELSE {}) ]

\* GithubClone without line 127: a failed clone leaves no message
GithubCloneSilent(a, nc, e) ==
    IF a.esc \/ ~(a.gone \/ a.raw = -1)
    THEN a
    ELSE IF nc = -1
         THEN [a EXCEPT !.raw = -1, !.ev = @ \cup {"clone_failed"}]
         ELSE [a EXCEPT !.raw = nc]

\* the clone, when the directory does not exist or raw_docs is None
GithubClone(a, nc, e) ==
    IF a.esc \/ ~(a.gone \/ a.raw = -1)
    THEN a
    ELSE IF nc = -1
         THEN [a EXCEPT !.raw = -1,
                        !.errs = Append(a.errs, Msg("GitHub clone failed: {e}", e)),
                        !.ev = @ \cup {"clone_failed"}]
         ELSE [a EXCEPT !.raw = nc]

\* filter by extension and split; keep = -1: the splitter raises
GithubSplit(b, keep, e) ==
    IF b.esc \/ (b.raw > 0 /\ keep = -1)
    THEN [ docs |-> DocsNone,
           errs |-> Append(b.errs, Msg("Critical fetch_github error: {e}", e)),
           ev |-> b.ev \cup (IF b.esc THEN {} ELSE {"split_failed"}) ]
    ELSE IF b.raw > 0
         THEN [docs |-> Docs(IF keep <= b.raw THEN keep ELSE b.raw), errs |-> b.errs, ev |-> b.ev]
         ELSE [docs |-> DocsNone, errs |-> b.errs, ev |-> b.ev]

fetch_github_result(errors, url, exists, first, n1, n2, rm, nc, keep, e) ==
    IF url = ""
    THEN [docs |-> DocsNone, errs |-> Append(errors, Msg("Missing GitHub URL.", "")), ev |-> {}]
    ELSE LET a == IF exists
                  THEN GithubExisting(errors, first, n1, n2, rm, e)
                  ELSE [raw |-> -1, errs |-> errors, gone |-> TRUE, esc |-> FALSE, ev |-> {}]
         IN  GithubSplit(GithubClone(a, nc, e), keep, e)

\* the edges of the graph (add_edge): the node that runs after node
NextNode_skips_documentation(node) ==
    CASE node = "fetch_github" -> "extract_info"
      [] node = "fetch_documentation" -> "extract_info"
      [] node = "extract_info" -> "fetch_publications"
      [] node = "fetch_publications" -> "synthesize_validate"
      [] node = "error_handler" -> "END"

NextNode(node) ==
    CASE node = "fetch_github" -> "fetch_documentation"
      [] node = "fetch_documentation" -> "extract_info"
      [] node = "extract_info" -> "fetch_publications"
      [] node = "fetch_publications" -> "synthesize_validate"
      [] node = "error_handler" -> "END"

fetch_github ==
    /\ pc = "fetch_github"
    /\ \E exists \in BOOLEAN, first \in {"loaded", "invalid", "gitcmd", "other"},
          n1 \in 0..MaxDocs, n2 \in -1..MaxDocs, rm \in {"ok", "raise"},
          nc \in -1..MaxDocs, keep \in -1..MaxDocs, e \in ExcTexts :
          LET r == fetch_github_result(error_messages, input_urls.github, exists,
                                       first, n1, n2, rm, nc, keep, e)
          IN  /\ github_docs' = r.docs
              /\ error_messages' = r.errs
              /\ hist' = Note(hist, r.ev)
    /\ pc' = NextNode("fetch_github")
    /\ UNCHANGED <<input_urls, docs_docs, extracted_info, model_card,
                   validation_issues, loc, fi>>

----------------------------------------------------------------------------
(* fetch_documentation                                                     *)

\* n = -1: RecursiveUrlLoader.load or the splitter raises
\* fetch_documentation starting from a fresh error list
fetch_documentation_fresh_errors(errors, url, n, e) ==
    IF url = ""
    THEN [docs |-> DocsNone, errs |-> <<Msg("Missing Docs URL.", "")>>, ev |-> {}]
    ELSE IF n = -1
         THEN [ docs |-> DocsNone,
                errs |-> <<Msg("Docs URL fetch failed: {e}\nTraceback: {tb_str}", e)>>,
                ev |-> {"docs_fetch_failed"} ]
         ELSE [docs |-> Docs(n), errs |-> <<>>, ev |-> {}]

fetch_documentation_result(errors, url, n, e) ==
    IF url = ""
    THEN [docs |-> DocsNone, errs |-> Append(errors, Msg("Missing Docs URL.", "")), ev |-> {}]
    ELSE IF n = -1
         THEN [ docs |-> DocsNone,
                errs |-> Append(errors, Msg("Docs URL fetch failed: {e}\nTraceback: {tb_str}", e)),
                ev |-> {"docs_fetch_failed"} ]
         ELSE [docs |-> Docs(n), errs |-> errors, ev |-> {}]

fetch_documentation ==
    /\ pc = "fetch_documentation"
    /\ \E n \in -1..MaxDocs, e \in ExcTexts :
          LET r == fetch_documentation_result(error_messages, input_urls.docs, n, e)
          IN  /\ docs_docs' = r.docs
              /\ error_messages' = r.errs
              /\ hist' = Note(hist, r.ev)
    /\ pc' = NextNode("fetch_documentation")
    /\ UNCHANGED <<input_urls, github_docs, extracted_info, model_card,
                   validation_issues, loc, fi>>

----------------------------------------------------------------------------
(* information_extraction                                                  *)

\* repo_url.rstrip('/').rstrip('.git').split('/')[-1]
CapabilityFromUrl(url) == IF url = GITHUB_URL THEN <<"mosartwmpy">> ELSE <<url>>

\* what the commit history of the clone gives for key_contributors
\* (git.Repo raising gives [])
AuthorLists == {<<>>, << <<"alice">> >>}

\* first line of the LICENSE file; <<>>: no file, or reading it raises
LicenseLines == {<<>>, <<"MIT License">>}

\* lines 66-90
Prepopulate(url, lic, authors) ==
    LET a == IF url # "" THEN Put(EmptyDict, "capability_name", Str(CapabilityFromUrl(url)))
             ELSE EmptyDict
        b == IF lic # <<>> THEN Put(a, "license", Str(lic)) ELSE a
    IN  Put(b, "key_contributors", List(authors))

\* the values the model is asked for in the pipeline runs: null for every
\* field, and for a few fields the values the claims turn on
Answers(f) ==
    {None} \cup
    CASE f = "capability_name" -> {Word("MOSART")}
      [] f = "key_contributors" -> {Str(<<"bob", ",", " ", "carol">>)}
      [] f = "doi" -> {Num}
      [] f = "computational_requirements" -> {Word("HPC")}
      [] f = "category" -> {List(<< <<"Energy">> >>)}
      [] OTHER -> {}

\* what the chain prompt | llm | json_parser returns: any JSON value
NotADict == [isDict |-> FALSE, d |-> EmptyDict]
DictOf(key, v) == [isDict |-> TRUE, d |-> Put(EmptyDict, key, v)]

RawResults(f) ==
    {NotADict, DictOf("value", Word("HPC"))} \cup {DictOf(f, v) : v \in Answers(f)}

\* one invocation of a chain: it raises (quota: the text of the exception
\* contains "insufficient_quota") or returns a parsed value
Raises(quota) == [t |-> "raise", quota |-> quota, raw |-> NotADict]
Returns(raw) == [t |-> "raw", quota |-> FALSE, raw |-> raw]

InvokeOutcomes(f) == {Raises(q) : q \in BOOLEAN} \cup {Returns(r) : r \in RawResults(f)}

\* lines 169-192
ParsePrimary(ei, f, raw) ==
    LET field_value == IF raw.isDict /\ f \in DOMAIN raw.d THEN raw.d[f] ELSE None
    IN  IF field_value = None THEN SetDefaultNone(ei, f) ELSE Put(ei, f, field_value)

\* lines 209-214 and 239-244
ParseFallback(ei, f, raw) ==
    IF raw.isDict /\ f \in DOMAIN raw.d THEN Put(ei, f, raw.d[f]) ELSE SetDefaultNone(ei, f)

\* the handlers read err_msg, which no line of extract.py binds
err_msg_bound == FALSE

\* the handlers call ChatOpenAI, which extract.py does not import
ChatOpenAI_bound == FALSE

\* the fallback chain can be built only where both names resolve
FallbackReachable == err_msg_bound /\ ChatOpenAI_bound

Step(ei, errs, exc, ev) == [ei |-> ei, errs |-> errs, exc |-> exc, ev |-> ev]

\* llm_fallback's chain invoked in a try; context is unbound when retrieval raised
FallbackInvoke(ei, errs, f, fb, e, context_bound, text) ==
    IF ~context_bound
    THEN Step(SetDefaultNone(ei, f), Append(errs, Msg(text, e)), FALSE, {})
    ELSE IF fb.t = "raise"
         THEN Step(SetDefaultNone(ei, f), Append(errs, Msg(text, e)), FALSE, {"invoke_fallback"})
         ELSE Step(ParseFallback(ei, f, fb.raw), errs, FALSE, {"invoke_fallback"})

\* lines 194-224: except Exception as invoke_e
InvokeHandler(ei, errs, f, quota, fb, e) ==
    IF ~err_msg_bound
    THEN Step(ei, errs, TRUE, {})
    ELSE IF quota
         THEN IF ~ChatOpenAI_bound
              THEN Step(ei, errs, TRUE, {})
              ELSE FallbackInvoke(ei, errs, f, fb, e, TRUE,
                                  "Fallback LLM invocation error for '{field_name}': {e}")
         ELSE Step(SetDefaultNone(ei, f),
                   Append(errs, Msg("LLM invocation/parsing error for '{field_name}': {e}", e)),
                   FALSE, {})

\* lines 226-254: except Exception as e
PreLLMHandler(ei, errs, f, quota, fb, e, context_bound) ==
    IF ~err_msg_bound
    THEN Step(ei, errs, TRUE, {})
    ELSE IF quota
         THEN IF ~ChatOpenAI_bound
              THEN Step(ei, errs, TRUE, {})
              ELSE FallbackInvoke(ei, errs, f, fb, e, context_bound,
                                  "Fallback before LLM error for '{field_name}': {e}")
         ELSE Step(SetDefaultNone(ei, f),
                   Append(errs, Msg("Pre-LLM processing error for '{field_name}': {e}", e)),
                   FALSE, {})

\* ExtractField without the test of lines 138-143: the chain is invoked
\* on an empty context
ExtractField_invokes_without_passages(ei, errs, f, retr, prim, fb, e) ==
    CASE retr \in {"raise", "raise_quota"} ->
            LET h == PreLLMHandler(ei, errs, f, retr = "raise_quota", fb, e, FALSE)
            IN  [h EXCEPT !.ev = @ \cup {"retrieval"}]
      [] OTHER ->
            IF prim.t = "raw"
            THEN Step(ParsePrimary(ei, f, prim.raw), errs, FALSE, {"retrieval", "invoke_primary"})
            ELSE LET h == InvokeHandler(ei, errs, f, prim.quota, fb, e)
                     \* an exception raised in the handler reaches the outer handler;
                     \* it is a NameError, whose text names no quota
                     g == IF h.exc THEN PreLLMHandler(h.ei, h.errs, f, FALSE, fb, e, TRUE)
                          ELSE h
                 IN  [g EXCEPT !.ev = @ \cup {"retrieval", "invoke_primary"}]

\* lines 136-254: one iteration of the loop over ModelCard.model_fields
ExtractField(ei, errs, f, retr, prim, fb, e) ==
    CASE retr = "empty" ->
            Step(SetDefaultNone(ei, f), errs, FALSE, {"retrieval"})
      [] retr \in {"raise", "raise_quota"} ->
            LET h == PreLLMHandler(ei, errs, f, retr = "raise_quota", fb, e, FALSE)
            IN  [h EXCEPT !.ev = @ \cup {"retrieval"}]
      [] OTHER ->
            IF prim.t = "raw"
            THEN Step(ParsePrimary(ei, f, prim.raw), errs, FALSE, {"retrieval", "invoke_primary"})
            ELSE LET h == InvokeHandler(ei, errs, f, prim.quota, fb, e)
                     \* an exception raised in the handler reaches the outer handler;
                     \* it is a NameError, whose text names no quota
                     g == IF h.exc THEN PreLLMHandler(h.ei, h.errs, f, FALSE, fb, e, TRUE)
                          ELSE h
                 IN  [g EXCEPT !.ev = @ \cup {"retrieval", "invoke_primary"}]

\* lines 56-127: prepopulation, the checks and the vector store
information_extraction_begin ==
    /\ pc = "extract_info"
    /\ \E lic \in LicenseLines, authors \in AuthorLists, embeddings \in BOOLEAN,
          vectorstore \in {"ok", "raise", "falsy"}, e \in ExcTexts :
          LET pre == Prepopulate(input_urls.github, lic, authors)
              all_docs == OrEmpty(github_docs) + OrEmpty(docs_docs)
              h == [hist EXCEPT !.prepop = pre]
              Return(ei, m, ev) ==
                  /\ extracted_info' = ei
                  /\ error_messages' = Append(error_messages, m)
                  /\ hist' = Note(h, ev)
                  /\ pc' = NextNode("extract_info")
                  /\ UNCHANGED <<loc, fi>>
          IN  IF ~embeddings
              THEN Return(EmptyDict, Msg("CRITICAL: Embeddings model not initialized.", ""),
                          {"no_embeddings"})
              ELSE IF all_docs = 0
              THEN Return(EmptyDict, Msg("No documents found. Skipping vector store and RAG.", ""),
                          {"no_documents"})
              ELSE IF vectorstore = "raise"
              THEN Return(EmptyDict, Msg("Critical information_extraction error: {e}", e),
                          {"index_raised"})
              ELSE IF vectorstore = "falsy"
              THEN Return(pre, Msg("Vector store initialization failed. RAG skipped.", ""),
                          {"index_falsy"})
              ELSE /\ loc' = pre
                   /\ fi' = 1
                   /\ hist' = h
                   /\ pc' = "extract_loop"
                   /\ UNCHANGED <<extracted_info, error_messages>>
    /\ UNCHANGED <<input_urls, github_docs, docs_docs, model_card, validation_issues>>

\* what a detailed run notes of the primary chain's outcome for field f
ResponseNotes(detail, f, retr, prim) ==
    IF ~detail THEN {}
    ELSE IF retr = "empty" THEN {"no_passages"}
    ELSE IF retr # "docs" THEN {}
    ELSE IF prim.t = "raise"
         THEN IF prim.quota THEN {"primary_quota_failure"} ELSE {"primary_failure"}
         ELSE IF ~prim.raw.isDict \/ f \notin DOMAIN prim.raw.d
              THEN {"malformed_answer"}
              ELSE {}

\* lines 130-269: one field, then the next field, the return after the last
\* one, or the outermost handler (lines 262-267) when an exception got there
information_extraction_field ==
    /\ pc = "extract_loop"
    /\ fi \in 1..Len(ModelFields)
    /\ LET f == ModelFields[fi] IN
       \E retr \in {"empty", "raise", "raise_quota", "docs"} :
       \E prim \in (IF retr = "docs" THEN InvokeOutcomes(f) ELSE {Raises(FALSE)}) :
       \E fb \in (IF FallbackReachable THEN InvokeOutcomes(f) ELSE {Raises(FALSE)}),
          e \in ExcTexts :
       \E r \in {ExtractField(loc, error_messages, f, retr, prim, fb, e)} :
          LET notes == ResponseNotes(hist.detail, f, retr, prim)
              h == [Note(hist, r.ev \cup notes) EXCEPT
                       !.failed = @ \/ retr \in {"raise", "raise_quota"}
                                    \/ (retr = "docs" /\ prim.t = "raise"),
                       !.last = IF hist.detail THEN r.ev \cup notes ELSE {}]
          IN  /\ hist' = h
              /\ IF r.exc
                 THEN /\ error_messages' =
                            Append(r.errs, Msg("Critical information_extraction error: {e}",
                                               "name 'err_msg' is not defined"))
                      /\ extracted_info' = EmptyDict
                      /\ pc' = NextNode("extract_info")
                      /\ loc' = EmptyDict
                      /\ fi' = 0
                 ELSE /\ error_messages' = r.errs
                      /\ IF fi = Len(ModelFields)
                         THEN /\ extracted_info' = r.ei
                              /\ pc' = NextNode("extract_info")
                              /\ loc' = EmptyDict
                              /\ fi' = 0
                         ELSE /\ loc' = r.ei
                              /\ fi' = fi + 1
                              /\ UNCHANGED <<extracted_info, pc>>
    /\ UNCHANGED <<input_urls, github_docs, docs_docs, model_card, validation_issues>>

----------------------------------------------------------------------------
(* fetch_publications                                                      *)

\* what the parser chain answers: nothing, the agreed refusal, a citation
\* without a DOI, a citation with one
NO_KEY_PUBLICATION == "No key publication identified."
DoiAtoms == {"10.21105/joss.03221"}

KeyPubStrings ==
    { <<>>, <<NO_KEY_PUBLICATION>>, <<" ", "Hydrology paper. JOSS 2021.">>,
      <<"Hydrology paper. JOSS 2021. DOI: ", "10.21105/joss.03221">> }

\* s.strip(): leading and trailing whitespace atoms removed
RECURSIVE LStrip(_)
LStrip(s) == IF s # <<>> /\ Head(s) = " " THEN LStrip(Tail(s)) ELSE s

RECURSIVE RStrip(_)
RStrip(s) == IF s # <<>> /\ s[Len(s)] = " " THEN RStrip(SubSeq(s, 1, Len(s) - 1)) ELSE s

Strip(s) == RStrip(LStrip(s))

\* needle in s, for a needle that is one atom of the string
Contains(s, atom) == \E i \in 1..Len(s) : s[i] = atom

\* re.search(r'(10\.\d{4,9}/[-._;()/:A-Z0-9]+)', s): the first DOI in s, or <<>>
DoiSearch(s) ==
    IF \E i \in 1..Len(s) : s[i] \in DoiAtoms
    THEN <<s[CHOOSE i \in 1..Len(s) : s[i] \in DoiAtoms /\ \A j \in 1..(i - 1) : s[j] \notin DoiAtoms]>>
    ELSE <<>>

\* RecordPublication without the test of line 314
RecordPublication_overwrites_doi(extracted, key_pub_string) ==
    IF key_pub_string # <<>> /\ ~Contains(key_pub_string, NO_KEY_PUBLICATION)
    THEN LET a == Put(extracted, "key_publications", Str(Strip(key_pub_string)))
             found_doi == DoiSearch(key_pub_string)
         IN  IF found_doi # <<>>
             THEN Put(a, "doi", Str(found_doi))
             ELSE a
    ELSE extracted

\* lines 307-318
RecordPublication(extracted, key_pub_string) ==
    IF key_pub_string # <<>> /\ ~Contains(key_pub_string, NO_KEY_PUBLICATION)
    THEN LET a == Put(extracted, "key_publications", Str(Strip(key_pub_string)))
             found_doi == DoiSearch(key_pub_string)
         IN  IF found_doi # <<>> /\ ~Truthy(Get(a, "doi"))
             THEN Put(a, "doi", Str(found_doi))
             ELSE a
    ELSE extracted

\* search: "ok", or the str(e) of the search that raised;
\* answer: "raise", or the string the parser chain returned
fetch_publications_result(extracted, errors, search_tool, llm, search, raised, answer, e) ==
    IF ~search_tool
    THEN [ei |-> extracted, errs |-> Append(errors, Msg("CRITICAL: Search tool not initialized.", "")),
          ev |-> {}]
    ELSE IF ~llm
    THEN [ei |-> extracted,
          errs |-> Append(errors, Msg("CRITICAL: LLM not initialized for publication parsing.", "")),
          ev |-> {}]
    ELSE IF ~Truthy(Get(extracted, "capability_name"))
    THEN [ei |-> extracted, errs |-> errors, ev |-> {}]
    ELSE LET errs1 == IF search = "ok" THEN errors
                      ELSE Append(errors, Msg("Search query failed: {e}", search))
             ev1 == {"search", "invoke_publication"}
                        \cup (IF search = "ok" THEN {} ELSE {"search_failed"})
         IN  IF raised
             THEN [ei |-> extracted,
                   errs |-> Append(errs1, Msg("Publication fetch node error: {e}", e)),
                   ev |-> ev1 \cup {"parser_failed"}]
             ELSE [ei |-> RecordPublication(extracted, answer), errs |-> errs1, ev |-> ev1]

fetch_publications ==
    /\ pc = "fetch_publications"
    /\ \E search_tool \in BOOLEAN, llm \in BOOLEAN, search \in {"ok"} \cup SearchExcTexts,
          raised \in BOOLEAN, answer \in KeyPubStrings, e \in ExcTexts :
          \E r \in {fetch_publications_result(extracted_info, error_messages, search_tool,
                                              llm, search, raised, answer, e)} :
              /\ extracted_info' = r.ei
              /\ error_messages' = r.errs
              /\ hist' = Note(hist, r.ev)
    /\ pc' = NextNode("fetch_publications")
    /\ UNCHANGED <<input_urls, github_docs, docs_docs, model_card, validation_issues,
                   loc, fi>>

----------------------------------------------------------------------------
(* synthesize_and_validate                                                 *)

\* raw_value.split(','): the pieces between the "," atoms
RECURSIVE SplitComma(_, _)
SplitComma(s, piece) ==
    IF s = <<>> THEN <<piece>>
    ELSE IF Head(s) = "," THEN <<piece>> \o SplitComma(Tail(s), <<>>)
    ELSE SplitComma(Tail(s), Append(piece, Head(s)))

\* [item.strip() for item in raw_value.split(',') if item.strip()]
RECURSIVE StripNonEmpty(_)
StripNonEmpty(pieces) ==
    IF pieces = <<>> THEN <<>>
    ELSE IF Strip(Head(pieces)) = <<>> THEN StripNonEmpty(Tail(pieces))
    ELSE <<Strip(Head(pieces))>> \o StripNonEmpty(Tail(pieces))

CoerceSplit(s) == StripNonEmpty(SplitComma(s, <<>>))

\* str(current_value) of a value that is neither a string nor a list
StrOf(v) == IF v.k = "int" THEN <<"42">> ELSE <<"None">>

\* lines 68-71
is_list_field(f) ==
    AnnotationOrigin(f) = "list"
    \/ (AnnotationStr(f) # <<>> /\ Head(AnnotationStr(f)) = "List[")

\* line 141
DefaultsToList(f) == AnnotationOrigin(f) = "list" \/ Contains(AnnotationStr(f), "List[")

IssueKey(kind, f) == <<kind, f>>

Acc(data, issues) == [data |-> data, issues |-> issues]

\* lines 73-86
CoerceList(acc, f) ==
    LET raw_value == Get(acc.data, f)
        d1 == IF raw_value.k = "str" THEN Put(acc.data, f, List(CoerceSplit(raw_value.s)))
              ELSE acc.data
        current_value == Get(d1, f)
    IN  IF current_value = None /\ is_required(f)
        THEN Acc(d1, Put(acc.issues, IssueKey("missing", f), None))
        ELSE IF current_value.k # "list" /\ current_value # None
        THEN Acc(Put(d1, f, List(<<StrOf(current_value)>>)),
                 Put(acc.issues, IssueKey("type_error", f), None))
        ELSE Acc(d1, acc.issues)

\* lines 97-102
CheckMissing(acc, f) ==
    IF Get(acc.data, f) = None /\ is_required(f) /\ IssueKey("missing", f) \notin DOMAIN acc.issues
    THEN Acc(acc.data, Put(acc.issues, IssueKey("missing", f), None))
    ELSE acc

\* lines 59-102: the body of the loop for one field
CoerceField(acc, f) == CheckMissing(IF is_list_field(f) THEN CoerceList(acc, f) ELSE acc, f)

\* lines 59-102: the loop over ModelCard.model_fields.  An iteration reads and
\* writes only coerced_data[field_name] and the issues keyed by field_name, so
\* the loop's result is its body applied to each field of the first state
CoerceLoop(extracted) ==
    LET init == Acc(extracted, EmptyDict)
        body == [f \in FieldNames |-> CoerceField(init, f)]
        keys == (DOMAIN extracted) \cup {f \in FieldNames : f \in DOMAIN body[f].data}
        ikeys == UNION {DOMAIN body[f].issues : f \in FieldNames}
    IN  Acc([k \in keys |-> IF k \in FieldNames THEN body[k].data[k] ELSE extracted[k]],
            [ik \in ikeys |-> body[ik[2]].issues[ik]])

\* compute_req in allowed_compute
InAllowedCompute(v) == v.k = "str" /\ v.s \in ALLOWED_COMPUTE_REQS

\* VocabCompute without line 109: the issue is recorded, the value is kept
VocabComputeKeepsValue(acc) ==
    LET compute_req == Get(acc.data, "computational_requirements")
    IN  IF compute_req # None /\ ~InAllowedCompute(compute_req)
        THEN Acc(acc.data, Put(acc.issues, IssueKey("invalid_compute", ""), compute_req))
        ELSE acc

\* lines 104-109
VocabCompute(acc) ==
    LET compute_req == Get(acc.data, "computational_requirements")
    IN  IF compute_req # None /\ ~InAllowedCompute(compute_req)
        THEN Acc(Put(acc.data, "computational_requirements", Word("None specified")),
                 Put(acc.issues, IssueKey("invalid_compute", ""), compute_req))
        ELSE acc

IsAllowedCategory(cat) == cat \in ALLOWED_CATEGORIES
IsInvalidCategory(cat) == cat \notin ALLOWED_CATEGORIES

\* VocabCategory without line 121: the issue is recorded, the list is kept
VocabCategoryKeepsList(acc) ==
    LET category_list == Get(acc.data, "category")
    IN  IF category_list = None THEN acc
        ELSE IF category_list.k = "list"
        THEN LET invalid_cats == SelectSeq(category_list.l, IsInvalidCategory)
             IN  Acc(acc.data,
                     IF invalid_cats # <<>>
                     THEN Put(acc.issues, IssueKey("invalid_category", ""), List(invalid_cats))
                     ELSE acc.issues)
        ELSE Acc(Del(acc.data, "category"),
                 Put(acc.issues, IssueKey("type_error", "category"), None))

\* lines 111-126
VocabCategory(acc) ==
    LET category_list == Get(acc.data, "category")
    IN  IF category_list = None THEN acc
        ELSE IF category_list.k = "list"
        THEN LET valid_cats == SelectSeq(category_list.l, IsAllowedCategory)
                 invalid_cats == SelectSeq(category_list.l, IsInvalidCategory)
             IN  Acc(Put(acc.data, "category", List(valid_cats)),
                     IF invalid_cats # <<>>
                     THEN Put(acc.issues, IssueKey("invalid_category", ""), List(invalid_cats))
                     ELSE acc.issues)
        ELSE Acc(Del(acc.data, "category"),
                 Put(acc.issues, IssueKey("type_error", "category"), None))

\* ModelDataForValidation without the filter of line 132
ModelDataKeepsOtherKeys(coerced_data) ==
    [ f \in FieldNames \cup DOMAIN coerced_data |->
        IF Get(coerced_data, f) = None
        THEN IF DefaultsToList(f) THEN List(<<>>) ELSE Str(<<>>)
        ELSE coerced_data[f] ]

\* lines 132-144: the schema's keys, the absent ones filled
ModelDataForValidation(coerced_data) ==
    [ f \in FieldNames |->
        IF Get(coerced_data, f) = None
        THEN IF DefaultsToList(f) THEN List(<<>>) ELSE Str(<<>>)
        ELSE coerced_data[f] ]

\* ModelCard(**model_data_for_validation) raises no ValidationError
ValidationOK(data) == \A f \in FieldNames : FieldTypeOK(f, data[f])

CardNone == [none |-> TRUE, d |-> EmptyDict]
Card(d) == [none |-> FALSE, d |-> d]

\* coerced_data = extracted (no copy): the writes reach the caller's map
ExtractedAfter_aliased(extracted, coerced_data) == coerced_data

\* line 55, coerced_data = extracted.copy(): what the map of the state holds
\* once coerced_data has been written to; the values are never changed in
\* place, only keys of the copy are assigned and deleted
ExtractedAfter(extracted, coerced_data) == extracted

\* extracted: the map state['extracted_info'] refers to, as the call leaves it
synthesize_and_validate(extracted, errors) ==
    IF DOMAIN extracted = {}
    THEN [ model_card |-> CardNone,
           issues |-> Put(EmptyDict, IssueKey("synthesis", ""), None),
           errs |-> Append(errors, Msg("No extracted information to synthesize.", "")),
           extracted |-> extracted ]
    ELSE LET acc == VocabCategory(VocabCompute(CoerceLoop(extracted)))
             data == ModelDataForValidation(acc.data)
             left == ExtractedAfter(extracted, acc.data)
         IN  IF ValidationOK(data)
             THEN [ model_card |-> Card(data), issues |-> acc.issues, errs |-> errors,
                    extracted |-> left ]
             ELSE [ model_card |-> Card(acc.data),
                    issues |-> Put(acc.issues, IssueKey("pydantic_validation", ""), None),
                    errs |-> Append(errors, Msg("Final validation failed: {e}", "validation error")),
                    extracted |-> left ]

----------------------------------------------------------------------------
(* decide_next_step and the terminal nodes                                 *)

\* not state.get('model_card')
CardFalsy(card) == card.none \/ DOMAIN card.d = {}

\* decide_next_step with the test of line 52 inverted
decide_next_step_card_inverted(errors, issues, card) ==
    IF AnyFetchFailed(errors) THEN "error_handler"
    ELSE IF AnyVectorStoreFailed(errors) THEN "error_handler"
    ELSE IF DOMAIN issues # {} THEN "error_handler"
    ELSE IF ~CardFalsy(card) THEN "error_handler"
    ELSE "END"

decide_next_step(errors, issues, card) ==
    IF AnyFetchFailed(errors) THEN "error_handler"
    ELSE IF AnyVectorStoreFailed(errors) THEN "error_handler"
    ELSE IF DOMAIN issues # {} THEN "error_handler"
    ELSE IF CardFalsy(card) THEN "error_handler"
    ELSE "END"

\* the node synthesize_validate and the conditional edge out of it
synthesize_validate ==
    /\ pc = "synthesize_validate"
    /\ \E r \in {synthesize_and_validate(extracted_info, error_messages)} :
       LET next == decide_next_step(r.errs, r.issues, r.model_card)
       IN  /\ model_card' = r.model_card
           /\ validation_issues' = r.issues
           /\ error_messages' = r.errs
           /\ extracted_info' = r.extracted
           /\ hist' = [hist EXCEPT !.route = next]
           /\ pc' = next
    /\ UNCHANGED <<input_urls, github_docs, docs_docs, loc, fi>>

\* handle_error prints and returns {}
handle_error ==
    /\ pc = "error_handler"
    /\ pc' = NextNode("error_handler")
    /\ UNCHANGED <<input_urls, github_docs, docs_docs, extracted_info, model_card,
                   error_messages, validation_issues, loc, fi, hist>>

----------------------------------------------------------------------------

\* the inputs of app.py, and the same inputs with a URL left out
Init ==
    /\ pc = "fetch_github"
    /\ input_urls \in [github : {"", GITHUB_URL}, docs : {"", DOCS_URL}]
    /\ github_docs = DocsNone
    /\ docs_docs = DocsNone
    /\ extracted_info = EmptyDict
    /\ model_card = CardNone
    /\ error_messages = <<>>
    /\ validation_issues = EmptyDict
    /\ loc = EmptyDict
    /\ fi = 0
    /\ hist = NoHist

Next ==
    \/ fetch_github
    \/ fetch_documentation
    \/ information_extraction_begin
    \/ information_extraction_field
    \/ fetch_publications
    \/ synthesize_validate
    \/ handle_error

Spec == Init /\ [][Next]_vars

----------------------------------------------------------------------------
(* The validation stage on its own: synthesize_and_validate applied to the *)
(* extracted maps a run can hand it (any JSON value for any key)           *)

\* all sequences over A of length at most n
SeqsUpTo(A, n) == UNION {[1..m -> A] : m \in 0..n}

\* a key the map does not hold
Absent == [k |-> "absent", s |-> <<>>, l |-> <<>>]

\* the raw input of the specification's first end-to-end scenario
EXAMPLE_CATEGORY == <<"Energy", ",", " ", "Water Management", ",", " ", "Quantum">>

CategoryInputs ==
    {Absent, None, Num, Str(EXAMPLE_CATEGORY)}
    \cup {Str(s) : s \in SeqsUpTo({"Energy", "Quantum", ",", " "}, MaxStrLen)}
    \cup {List(l) : l \in SeqsUpTo({<<"Energy">>, <<"Water Management">>, <<"Quantum">>}, MaxListLen)}

ComputeInputs ==
    { Absent, None, Num, Word("HPC"), Word("None specified"), Word("Supercomputer"),
      Str(<<>>), List(<< <<"HPC">> >>) }

ContributorInputs ==
    {Absent, Num, Str(<<"alice", ",", " ", "bob">>), List(<< <<"alice">>, <<"bob">> >>)}

DoiInputs == {Absent, Num}

ExtraInputs == {Absent, Num}

\* the dict with the given entries, the absent ones left out
DictOfEntries(entries) ==
    [key \in {x \in DOMAIN entries : entries[x] # Absent} |-> entries[key]]

ValidateInputs ==
    { DictOfEntries([ category |-> a, computational_requirements |-> b,
                      key_contributors |-> c, doi |-> d, notes |-> x ]) :
        a \in CategoryInputs, b \in ComputeInputs, c \in ContributorInputs,
        d \in DoiInputs, x \in ExtraInputs }

InitValidate ==
    /\ pc = "synthesize_validate"
    /\ input_urls = [github |-> GITHUB_URL, docs |-> DOCS_URL]
    /\ github_docs = Docs(1)
    /\ docs_docs = DocsNone
    /\ extracted_info \in ValidateInputs
    /\ model_card = CardNone
    /\ error_messages = <<>>
    /\ validation_issues = EmptyDict
    /\ loc = EmptyDict
    /\ fi = 0
    /\ hist = NoHist

NextValidate ==
    \/ synthesize_validate
    \/ handle_error

SpecValidate == InitValidate /\ [][NextValidate]_vars

----------------------------------------------------------------------------
(* Properties                                                              *)

\* the conditional edge out of synthesize_validate has been taken
Routed == hist.route # ""

\* fetch_github recorded a failed git fetch or a failed clone, or
\* fetch_documentation recorded a failed docs fetch
HardFetchFailure ==
    hist.events \cap {"git_fetch_failed", "clone_failed", "docs_fetch_failed"} # {}

\* loading or building the vector store raised or gave nothing
IndexFailure == hist.events \cap {"index_raised", "index_falsy"} # {}

\* a retrieval call or a model invocation happened in the run
ExtractionAttempted ==
    hist.events \cap {"retrieval", "invoke_primary", "invoke_fallback",
                      "invoke_publication"} # {}

PrepopulatedNames == {"capability_name", "key_contributors"}

\* C1: a failure on one field never aborts the loop: when the stage returns
\* after some field failed, the loop has got to the last field, and every key
\* the loop held is still a key of the returned extracted_info
C1_FieldFailureDoesNotAbort ==
    [][ (pc = "extract_loop" /\ pc' = "fetch_publications" /\ hist'.failed)
            => /\ fi = Len(ModelFields)
               /\ \A key \in DOMAIN loc : key \in DOMAIN extracted_info' ]_vars

\* C2: capability_name and key_contributors keep the value prepopulation gave
\* them, during the loop and in the extracted_info the stage returns
C2_PrepopulatedNeverOverwritten ==
    \A f \in PrepopulatedNames \cap DOMAIN hist.prepop :
        /\ (pc = "extract_loop" /\ f \in DOMAIN loc) => loc[f] = hist.prepop[f]
        /\ (pc = "fetch_publications" /\ f \in DOMAIN extracted_info)
               => extracted_info[f] = hist.prepop[f]

\* C3: when information_extraction has returned, every schema field is a key
\* of extracted_info
C3_EveryFieldHasKey ==
    pc = "fetch_publications" => FieldNames \subseteq DOMAIN extracted_info

\* C4: the run is routed to the error handler exactly when a fetch recorded a
\* hard failure, the index failed, the validation found an issue or there is
\* no record
C4_RoutingRule ==
    Routed =>
        ( hist.route = "error_handler"
            <=> \/ HardFetchFailure
                \/ IndexFailure
                \/ DOMAIN validation_issues # {}
                \/ CardFalsy(model_card) )

\* C5: a run in which an ingestion stage recorded a hard failure is routed to
\* the error handler
C5_HardFetchFailureFails ==
    (Routed /\ HardFetchFailure) => hist.route = "error_handler"

\* C6: a run whose ingestion gave no document is routed to the error handler,
\* holds an error the router recognises as a vector store failure, and made
\* no retrieval call and no model invocation
C6_NoDocumentsIsIndexFailure ==
    (Routed /\ OrEmpty(github_docs) + OrEmpty(docs_docs) = 0)
        => /\ hist.route = "error_handler"
           /\ AnyVectorStoreFailed(error_messages)
           /\ ~ExtractionAttempted

RequiredPresent(ei) == \A f \in FieldNames : is_required(f) => Get(ei, f) # None

VocabularyConformant(ei) ==
    /\ Get(ei, "computational_requirements").k = "str"
    /\ Get(ei, "computational_requirements").s \in ALLOWED_COMPUTE_REQS
    /\ Get(ei, "category").k = "list"
    /\ \A i \in 1..Len(Get(ei, "category").l) : Get(ei, "category").l[i] \in ALLOWED_CATEGORIES

\* every value held for a schema field is null or of the field's declared type
TypeConformant(ei) ==
    \A f \in FieldNames \cap DOMAIN ei : ei[f] = None \/ FieldTypeOK(f, ei[f])

NoFailurePhrase ==
    /\ ~AnyFetchFailed(error_messages)
    /\ ~AnyVectorStoreFailed(error_messages)

RoutedToSuccessClean == hist.route = "END" /\ DOMAIN validation_issues = {}

\* C7 as stated: required fields present, vocabulary fields conformant and no
\* ingestion or index failure recorded give SUCCESS with no issue
C7_ConformantRunSucceeds_AsStated ==
    ( /\ Routed
      /\ RequiredPresent(extracted_info)
      /\ VocabularyConformant(extracted_info)
      /\ ~HardFetchFailure /\ ~IndexFailure )
        => RoutedToSuccessClean

\* C7 amended: with, in addition, every extracted value of its field's declared
\* type and no error message holding one of the two phrases the router looks
\* for, the run is routed to SUCCESS with no issue
C7_ConformantRunSucceeds ==
    ( /\ Routed
      /\ RequiredPresent(extracted_info)
      /\ VocabularyConformant(extracted_info)
      /\ TypeConformant(extracted_info)
      /\ ~HardFetchFailure /\ ~IndexFailure
      /\ NoFailurePhrase )
        => RoutedToSuccessClean

C7_Witness ==
    /\ Routed
    /\ RequiredPresent(extracted_info)
    /\ VocabularyConformant(extracted_info)
    /\ Get(extracted_info, "category").l # <<>>
    /\ TypeConformant(extracted_info)
    /\ ~HardFetchFailure /\ ~IndexFailure
    /\ NoFailurePhrase
    /\ RoutedToSuccessClean
    /\ ~model_card.none

\* C8: a string given for category is split on commas into trimmed tokens; the
\* record holds the allowed tokens in order, and an issue names the others
C8_CategoryStringIsSplit ==
    (Routed /\ Get(extracted_info, "category").k = "str")
        => LET tokens == CoerceSplit(extracted_info["category"].s)
               allowed == SelectSeq(tokens, IsAllowedCategory)
               others == SelectSeq(tokens, IsInvalidCategory)
           IN  /\ Get(model_card.d, "category") = List(allowed)
               /\ others # <<>>
                     => Get(validation_issues, IssueKey("invalid_category", "")) = List(others)

\* C9: a present computational_requirements outside the allowed set gives an
\* invalid_compute issue and the value "None specified" in the record; a
\* present value of the allowed set is kept and gives no such issue
C9_ComputeVocabulary ==
    Routed =>
        LET compute_req == Get(extracted_info, "computational_requirements")
            held == Get(model_card.d, "computational_requirements")
            flagged == IssueKey("invalid_compute", "") \in DOMAIN validation_issues
        IN  compute_req # None =>
                IF compute_req.k = "str" /\ compute_req.s \in ALLOWED_COMPUTE_REQS
                THEN held = compute_req /\ ~flagged
                ELSE held = Word("None specified") /\ flagged

C9_Witness ==
    /\ Routed
    /\ Get(extracted_info, "computational_requirements") = Word("Supercomputer")
    /\ Get(model_card.d, "computational_requirements") = Word("None specified")
    /\ IssueKey("invalid_compute", "") \in DOMAIN validation_issues

\* the list-shaped fields the specification names
ListShapedNamed == {"key_contributors", "input_variables", "category"}

\* C10: in the record the validation stage produced, the value of a
\* list-shaped field is a list
C10_ListShapedIsSequence ==
    (Routed /\ ~model_card.none)
        => \A f \in ListShapedNamed \cap DOMAIN model_card.d : model_card.d[f].k = "list"

\* the final validation passed: the record is ModelCard(...).model_dump()
Finalized ==
    /\ Routed
    /\ ~model_card.none
    /\ IssueKey("pydantic_validation", "") \notin DOMAIN validation_issues

\* C11: in a finalized record computational_requirements is a string of the
\* allowed set, whatever the extracted value was
C11_FinalizedComputeInAllowedSet ==
    Finalized =>
        LET held == Get(model_card.d, "computational_requirements")
        IN  held.k = "str" /\ held.s \in ALLOWED_COMPUTE_REQS

\* the elements of seq that are not elements of kept
DroppedFrom(seq, kept) ==
    {seq[i] : i \in 1..Len(seq)} \ {kept[i] : i \in 1..Len(kept)}

\* C12: the category the validation stage produced is absent or a list of
\* allowed categories, and every element of an extracted list that is not in
\* it is an element of the invalid_category issue
C12_CategoryElementsAllowed ==
    Routed =>
        LET given == Get(extracted_info, "category")
            held == Get(model_card.d, "category")
            listed == Get(validation_issues, IssueKey("invalid_category", ""))
        IN  /\ held = None \/ held.k = "list"
            /\ \A i \in 1..Len(held.l) : held.l[i] \in ALLOWED_CATEGORIES
            /\ given.k = "list" =>
                   /\ ~model_card.none
                   /\ held.k = "list"
                   /\ DroppedFrom(given.l, held.l) \subseteq {listed.l[i] : i \in 1..Len(listed.l)}

C12_Witness ==
    /\ Routed
    /\ Get(extracted_info, "category") = List(<< <<"Energy">>, <<"Quantum">> >>)
    /\ Get(model_card.d, "category") = List(<< <<"Energy">> >>)
    /\ Get(validation_issues, IssueKey("invalid_category", "")) = List(<< <<"Quantum">> >>)

\* C13: the validation stage run again on the record it produced gives the
\* same record and no issue
C13_ValidationIdempotent ==
    (Routed /\ ~model_card.none) =>
        LET again == synthesize_and_validate(model_card.d, error_messages)
        IN  again.model_card = model_card /\ DOMAIN again.issues = {}

\* the field that line 125 of validate.py calls a required list field
FieldsCalledRequired == {"category"}

\* C14: a required field that the extracted map does not hold, or holds as
\* null, has a missing-field issue
C14_RequiredMissingIsFlagged ==
    (Routed /\ DOMAIN extracted_info # {}) =>
        \A f \in FieldsCalledRequired :
            Get(extracted_info, f) = None => IssueKey("missing", f) \in DOMAIN validation_issues

----------------------------------------------------------------------------
(* The extraction stage on its own, after an ingestion that gave documents *)
(* and recorded no error                                                   *)

InitExtract ==
    /\ pc = "extract_info"
    /\ input_urls = [github |-> GITHUB_URL, docs |-> DOCS_URL]
    /\ github_docs = Docs(MaxDocs)
    /\ docs_docs \in {DocsNone, Docs(MaxDocs)}
    /\ extracted_info = EmptyDict
    /\ model_card = CardNone
    /\ error_messages = <<>>
    /\ validation_issues = EmptyDict
    /\ loc = EmptyDict
    /\ fi = 0
    /\ hist = [NoHist EXCEPT !.detail = TRUE]

NextExtract ==
    \/ information_extraction_begin
    \/ information_extraction_field

SpecExtract == InitExtract /\ [][NextExtract]_vars

\* C15: when the primary chain failed with a quota error for some field, the
\* fallback chain has been invoked
C15_QuotaFailureTriesFallback ==
    "primary_quota_failure" \in hist.events => "invoke_fallback" \in hist.events

\* C16: the step in which the primary chain's response is not a dict, or is a
\* dict without the field's key, appends a diagnostic to the error list
C16_MalformedAnswerIsRecorded ==
    [][ (pc = "extract_loop" /\ "malformed_answer" \in hist'.events \ hist.events)
            => Len(error_messages') > Len(error_messages) ]_vars

\* C17: the record of a run routed to SUCCESS has the schema's fields as its
\* keys, and no other key
C17_FinalizedHasSchemaKeys ==
    (Routed /\ hist.route = "END")
        => ~model_card.none /\ DOMAIN model_card.d = FieldNames

C17_Witness ==
    /\ Routed
    /\ hist.route = "END"
    /\ "notes" \in DOMAIN extracted_info
    /\ DOMAIN extracted_info # FieldNames
    /\ DOMAIN model_card.d = FieldNames

\* s is a prefix of t
IsPrefix(s, t) == Len(s) <= Len(t) /\ SubSeq(t, 1, Len(s)) = s

\* C18: every stage leaves the error list it found as a prefix of the error
\* list it returns
C18_ErrorsAppendOnly == [][IsPrefix(error_messages, error_messages')]_vars

C18_Witness ==
    /\ pc = "END"
    /\ hist.route = "error_handler"
    /\ Len(error_messages) >= 4
    /\ "docs_fetch_failed" \in hist.events

\* a schema field other than the two the vocabulary checks rewrite holds a number
HoldsNumber(ei) ==
    \E f \in FieldNames \ {"category", "computational_requirements"} : Get(ei, f).k = "int"

\* C19: when an extracted value fits no declared type, the stage returns: it
\* records the pydantic_validation issue and an error, gives back the coerced
\* map with the offending value in it, and the run is routed to the error handler
C19_FailedValidationRoutesToFailure ==
    (Routed /\ HoldsNumber(extracted_info))
        => /\ IssueKey("pydantic_validation", "") \in DOMAIN validation_issues
           /\ ~model_card.none
           /\ \A f \in FieldNames \ {"category", "computational_requirements"} :
                  Get(model_card.d, f) = Get(extracted_info, f)
           /\ Len(error_messages) > 0
           /\ error_messages[Len(error_messages)].text = "Final validation failed: {e}"
           /\ hist.route = "error_handler"

C19_Witness ==
    /\ Routed
    /\ Get(extracted_info, "doi") = Num
    /\ Get(model_card.d, "doi") = Num
    /\ IssueKey("pydantic_validation", "") \in DOMAIN validation_issues
    /\ hist.route = "error_handler"

\* what the step notes for the first time
NewEvents == hist'.events \ hist.events

\* a collaborator call of the kinds the specification lists raised in the step:
\* repository load, docs crawl, index load or build, retrieval or model
\* invocation, search
ListedCallRaised ==
    \/ NewEvents \cap {"clone_failed", "load_failed", "docs_fetch_failed", "index_raised",
                       "search_failed", "parser_failed"} # {}
    \/ hist'.failed /\ ~hist.failed

\* any call raised in the step
SomeCallRaised ==
    \/ ListedCallRaised
    \/ NewEvents \cap {"git_fetch_failed", "repo_open_failed", "remove_failed",
                       "split_failed"} # {}

\* the failure was the stage's last attempt at its result
LastAttemptRaised ==
    \/ NewEvents \cap {"clone_failed", "split_failed", "docs_fetch_failed", "index_raised",
                       "parser_failed"} # {}
    \/ hist'.failed /\ ~hist.failed

\* the stage ended and the run went on to the next node
ReturnsNormally ==
    pc' = CASE pc = "fetch_github" -> "fetch_documentation"
            [] pc = "fetch_documentation" -> "extract_info"
            [] pc \in {"extract_info", "extract_loop"} -> "fetch_publications"
            [] pc = "fetch_publications" -> "synthesize_validate"
            [] OTHER -> "END"

ErrorRecorded == Len(error_messages') > Len(error_messages)

\* the stage's own result is null or empty (fetch_publications adds nothing)
OwnResultEmpty ==
    CASE pc = "fetch_github" -> OrEmpty(github_docs') = 0
      [] pc = "fetch_documentation" -> OrEmpty(docs_docs') = 0
      [] pc \in {"extract_info", "extract_loop"} -> extracted_info' = EmptyDict
      [] OTHER -> extracted_info' = extracted_info

EarlierResultsUnchanged ==
    /\ pc # "fetch_github" => github_docs' = github_docs
    /\ pc # "fetch_documentation" => docs_docs' = docs_docs
    /\ pc \notin {"extract_info", "extract_loop", "fetch_publications"}
           => extracted_info' = extracted_info
    /\ model_card' = model_card
    /\ validation_issues' = validation_issues

----------------------------------------------------------------------------
(* Document sources that give no documents                                 *)

\* a return of fetch_github or fetch_documentation: github_docs / docs_docs
\* is the document result of the call
FetchReturned(node) == pc = node /\ pc' # node

\* C21: every return of fetch_github or fetch_documentation whose document
\* result is absent (None) or empty has appended at least one message to
\* the error list during the call, the source that loaded but held no
\* documents included
C21_NoDocumentsRecordsError ==
    [][ /\ (FetchReturned("fetch_github") /\ OrEmpty(github_docs') = 0)
            => Len(error_messages') > Len(error_messages)
        /\ (FetchReturned("fetch_documentation") /\ OrEmpty(docs_docs') = 0)
            => Len(error_messages') > Len(error_messages) ]_vars

----------------------------------------------------------------------------
(* The order of the stages                                                 *)

\* the stage a position of the run belongs to: INGEST is fetch_github (1)
\* then fetch_documentation (2), EXTRACT 3, ENRICH 4, VALIDATE 5,
\* FAILURE 6 (error_handler), and 7 the end of the run
StageOf(node) ==
    CASE node = "fetch_github" -> 1
      [] node = "fetch_documentation" -> 2
      [] node \in {"extract_info", "extract_loop"} -> 3
      [] node = "fetch_publications" -> 4
      [] node = "synthesize_validate" -> 5
      [] node = "error_handler" -> 6
      [] node = "END" -> 7

\* a step stays inside EXTRACT (the loop over the fields), or goes from a
\* stage before VALIDATE to the very next stage, or from VALIDATE to exactly
\* one of SUCCESS and FAILURE as the routing decision says, or from FAILURE
\* to the end of the run; nothing leaves the end of the run
StageStep ==
    \/ StageOf(pc) = 3 /\ StageOf(pc') = 3 /\ pc' # "extract_info"
    \/ StageOf(pc) < 5 /\ StageOf(pc') = StageOf(pc) + 1
                       /\ pc' # "extract_loop" /\ hist'.route = ""
    \/ pc = "synthesize_validate" /\ hist.route = ""
          /\ pc' \in {"END", "error_handler"} /\ hist'.route = pc'
    \/ pc = "error_handler" /\ pc' = "END" /\ hist'.route = "error_handler"

\* the run is over, or the guard of the action of some node holds (the
\* guards of the seven actions of Next, collected)
NodeDue ==
    \/ pc = "END"
    \/ pc \in {"fetch_github", "fetch_documentation", "extract_info", "fetch_publications",
               "synthesize_validate", "error_handler"}
    \/ pc = "extract_loop" /\ fi \in 1..Len(ModelFields)

\* what is left of the run: the stages to come and, inside EXTRACT, the
\* fields to come
StepsLeft == (7 - StageOf(pc)) * (Len(ModelFields) + 1)
             + (IF pc = "extract_loop" THEN Len(ModelFields) - fi ELSE Len(ModelFields))

\* C22: every run starts at INGEST (fetch_github), runs fetch_github,
\* fetch_documentation, EXTRACT, ENRICH and VALIDATE once each in that order
\* with no stage skipped or repeated, takes the routing decision only after
\* VALIDATE, and then ends in exactly one of SUCCESS and FAILURE; FAILURE
\* has no transition back into the pipeline. Reaching the end is stated as:
\* every step takes the run nearer to its end, and a node can run in every
\* state but the last
C22_StagesInOrderThenTerminal ==
    /\ pc = "fetch_github" /\ NodeDue
    /\ [][StageStep /\ StepsLeft' < StepsLeft /\ NodeDue']_vars

\* a run that went through every stage, then FAILURE, and is over
C22_Witness ==
    /\ pc = "END"
    /\ hist.route = "error_handler"
    /\ hist.prepop # EmptyDict

----------------------------------------------------------------------------
(* Retrieval that gives no passages                                        *)

\* the iteration for field ModelFields[fi] found no passages
NoPassagesStep == pc = "extract_loop" /\ "no_passages" \in hist'.last

\* the map of extracted values after the iteration: the node's local map, or
\* what the node returns after the last field
AfterIteration == IF pc' = "extract_loop" THEN loc' ELSE extracted_info'

\* C23: for every field, when retrieval returns no passages the extractor
\* sets the field to null unless it already has a (prepopulated) value,
\* leaves every other field alone, invokes neither the primary nor the
\* fallback model for it, appends no error, and goes on to the next field
\* (after the last field, returns)
C23_NoPassagesGivesNullWithoutInvoking ==
    [][ NoPassagesStep =>
          LET f == ModelFields[fi] IN
          /\ hist'.last \cap {"invoke_primary", "invoke_fallback"} = {}
          /\ error_messages' = error_messages
          /\ f \in DOMAIN AfterIteration
          /\ AfterIteration[f] = (IF f \in DOMAIN loc THEN loc[f] ELSE None)
          /\ \A g \in DOMAIN AfterIteration \ {f} : g \in DOMAIN loc /\ AfterIteration[g] = loc[g]
          /\ DOMAIN loc \subseteq DOMAIN AfterIteration
          /\ IF fi < Len(ModelFields)
             THEN pc' = "extract_loop" /\ fi' = fi + 1
             ELSE pc' = "fetch_publications" ]_vars

\* no passages were found for a prepopulated field and for a field that was
\* not prepopulated; the second is null and the first kept its value
C23_Witness ==
    /\ pc = "extract_loop"
    /\ "no_passages" \in hist.last
    /\ fi > 2
    /\ "capability_name" \in DOMAIN loc /\ loc["capability_name"] = hist.prepop["capability_name"]
    /\ ModelFields[fi - 1] \notin DOMAIN hist.prepop
    /\ loc[ModelFields[fi - 1]] = None
    /\ hist.events \cap {"invoke_primary", "invoke_fallback"} = {}

----------------------------------------------------------------------------
(* What the validation stage leaves of the extracted values                *)

----------------------------------------------------------------------------
(* The enrichment stage on its own: fetch_publications applied to the maps *)
(* extraction can hand it                                                  *)

\* capability_name as extraction left it: no key, null, "", a name
CapabilityInputs == {Absent, None, Str(<<>>), Word("MOSART")}

\* doi as extraction left it: no key, null, "", [], a number, a DOI
DoiLeftByExtraction ==
    {Absent, None, Str(<<>>), List(<<>>), Num, Word("10.5194/gmd-6-1157-2013")}

\* key_publications as extraction left it
PublicationsLeftByExtraction == {Absent, None, Word("Hydrology paper. JOSS 2021.")}

PublicationInputs ==
    { DictOfEntries([capability_name |-> c, doi |-> d, key_publications |-> k]) :
        c \in CapabilityInputs, d \in DoiLeftByExtraction, k \in PublicationsLeftByExtraction }

InitPublications ==
    /\ pc = "fetch_publications"
    /\ input_urls = [github |-> GITHUB_URL, docs |-> DOCS_URL]
    /\ github_docs = Docs(1)
    /\ docs_docs = DocsNone
    /\ extracted_info \in PublicationInputs
    /\ model_card = CardNone
    /\ error_messages \in {<<>>, <<Msg("Missing Docs URL.", "")>>}
    /\ validation_issues = EmptyDict
    /\ loc = EmptyDict
    /\ fi = 0
    /\ hist = NoHist

NextPublications == fetch_publications

SpecPublications == InitPublications /\ [][NextPublications]_vars

\* the call returned at lines 241-248: the search tool or the model is not there
ToolOrModelUnavailable ==
    /\ Len(error_messages') = Len(error_messages) + 1
    /\ error_messages'[Len(error_messages')] \in
          { Msg("CRITICAL: Search tool not initialized.", ""),
            Msg("CRITICAL: LLM not initialized for publication parsing.", "") }

\* the doi entry of the map differs after the call
DoiWritten ==
    \/ ("doi" \in DOMAIN extracted_info') # ("doi" \in DOMAIN extracted_info)
    \/ Get(extracted_info', "doi") # Get(extracted_info, "doi")

\* the doi held after the call is a DOI that stands in the publication string
\* the call recorded
DoiIsFromPublication ==
    /\ "doi" \in DOMAIN extracted_info' /\ "key_publications" \in DOMAIN extracted_info'
    /\ LET d == extracted_info'["doi"]
           p == extracted_info'["key_publications"]
       IN  /\ d.k = "str" /\ Len(d.s) = 1 /\ d.s[1] \in DoiAtoms
           /\ p.k = "str" /\ Contains(p.s, d.s[1])
           /\ p # Get(extracted_info, "key_publications")

\* C25: fetch_publications never replaces a doi that extraction obtained: it
\* writes doi only when the extracted doi is absent or empty (no key, null,
\* "" or []) and a DOI was found in the publication it identified; when
\* capability_name is absent or empty, or the search tool or the model is
\* unavailable, it leaves extracted_info as it was
C25_EnrichmentKeepsExtractedDoi ==
    [][ pc = "fetch_publications" =>
          /\ Truthy(Get(extracted_info, "doi")) => ~DoiWritten
          /\ DoiWritten => (~Truthy(Get(extracted_info, "doi")) /\ DoiIsFromPublication)
          /\ ~Truthy(Get(extracted_info, "capability_name")) => extracted_info' = extracted_info
          /\ ToolOrModelUnavailable => extracted_info' = extracted_info ]_vars

\* the call recorded a publication that carries a DOI, and the doi that
\* extraction had obtained is still there
C25_Witness ==
    /\ pc = "synthesize_validate"
    /\ Get(extracted_info, "doi") = Word("10.5194/gmd-6-1157-2013")
    /\ Get(extracted_info, "key_publications") =
          Str(<<"Hydrology paper. JOSS 2021. DOI: ", "10.21105/joss.03221">>)

====
